---- MODULE Spec2Model ----
(***************************************************************************)
(* A model of the vector-path geometry engine of svg-designer:             *)
(*   - executeSVGStateMachine, the path interpreter (lib/SVGBuilder.js)    *)
(*   - combineBoundingBoxes, the bounding-box aggregator                   *)
(* JavaScript values are represented as follows:                           *)
(*   a Point [x, y]        the tuple <<x, y>>                              *)
(*   null (for a Point)    the empty tuple Null                            *)
(*   an object             a record with the object's property names       *)
(*   a thrown Error        the 1-tuple <<message>> where a value is due    *)
(***************************************************************************)
EXTENDS Integers, Sequences, FiniteSets, TLC

\* The longest command list handed to the interpreter.
MaxCommands == 3
\* The most entries in one call of combineBoundingBoxes.
MaxBoxes == 3
\* The longest point sequence handed to spline.js.
MaxPoints == 5
\* The most path elements added to one SVGBuilder.
MaxElements == 2
\* The most warnings one SVGBuilder writes to the console.
MaxWarnings == 1
\* The most path texts one Artist collects.
MaxDefinitions == 2
\* The most calls of getUniqueId and withUniqueId on one SVGBuilder.
MaxCalls == 3
\* The most definitions setDropShadow and setGaussianBlur add to.
MaxDefs == 4

----------------------------------------------------------------------------
(* Values *)

Null == <<>>

\* The messages of the errors the interpreter can end with.
BrushTipNotSet == "Brush tip not set"
\* (the code appends ": " and the command's name to this one)
UnsupportedSVGCommand == "Unsupported SVG command"
\* Reading brushTip[0] or brushTip[1] while brushTip is null.
TypeError == "TypeError: Cannot read properties of null"

\* PointMath.sum
sum(p1, p2) == <<p1[1] + p2[1], p1[2] + p2[2]>>

\* String.prototype.toUpperCase on the one-letter command names.
toUpperCase(s) ==
  CASE s = "m" -> "M"
    [] s = "l" -> "L"
    [] s = "h" -> "H"
    [] s = "v" -> "V"
    [] s = "c" -> "C"
    [] s = "q" -> "Q"
    [] s = "a" -> "A"
    [] s = "z" -> "Z"
    [] s = "t" -> "T"
    [] OTHER -> s

\* const supportedSVGPathDLetters = "MLHVZCQA" (declared, never consulted by
\* the interpreter: the switch of processCommand decides).
supportedSVGPathDLetters == {"M", "L", "H", "V", "Z", "C", "Q", "A"}

----------------------------------------------------------------------------
(* The interpreter's helpers.  The closure variable brushTip is passed in. *)

\* fromBrushTip(delta): throws when the brush tip is null.
fromBrushTip(brushTip, delta) ==
  IF brushTip = Null THEN <<BrushTipNotSet>> ELSE sum(brushTip, delta)

\* shiftPointIfNeeded(commandName, value)
shiftPointIfNeeded(brushTip, commandName, value) ==
  IF toUpperCase(commandName) = commandName
    THEN value
    ELSE fromBrushTip(brushTip, value)

\* Whether a helper's result is a thrown error rather than a Point.
isThrown(v) == Len(v) = 1

\* The interpreter's local state is the record st:
\*   geometry, brushTip, and error ("" while no exception has been thrown).
throw(st, message) == [st EXCEPT !.error = message]

----------------------------------------------------------------------------
(* processCommand: one operator per case of the switch.                    *)

\* Mutant of caseMoveTo: the move falls through to the line-to case.
caseMoveToFallsThrough(st, command) ==
  LET point == shiftPointIfNeeded(st.brushTip, command.name,
                                  <<command.args[1], command.args[2]>>)
  IN  IF isThrown(point)
        THEN throw(st, point[1])
        ELSE [st EXCEPT
                !.geometry = Append(@, [kind |-> "line",
                                        p1 |-> st.brushTip,
                                        p2 |-> point]),
                !.brushTip = point]

\* case "M": case "m":
caseMoveTo(st, command) ==
  LET x == command.args[1]
      y == command.args[2]
      point == shiftPointIfNeeded(st.brushTip, command.name, <<x, y>>)
  IN  IF isThrown(point)
        THEN throw(st, point[1])
        ELSE [st EXCEPT !.brushTip = point]

\* Mutant of caseLineTo: the line is put at the front of the list (unshift).
caseLineToUnshift(st, command) ==
  LET point == shiftPointIfNeeded(st.brushTip, command.name,
                                  <<command.args[1], command.args[2]>>)
  IN  IF isThrown(point)
        THEN throw(st, point[1])
        ELSE [st EXCEPT
                !.geometry = <<[kind |-> "line",
                                p1 |-> st.brushTip,
                                p2 |-> point]>> \o @,
                !.brushTip = point]

\* case "L": case "l":
caseLineTo(st, command) ==
  LET x == command.args[1]
      y == command.args[2]
      point == shiftPointIfNeeded(st.brushTip, command.name, <<x, y>>)
  IN  IF isThrown(point)
        THEN throw(st, point[1])
        ELSE [st EXCEPT
                !.geometry = Append(@, [kind |-> "line",
                                        p1 |-> st.brushTip,
                                        p2 |-> point]),
                !.brushTip = point]

\* case "H": case "h":  the argument [x, brushTip[1]] is built first.
caseHorizontalLineTo(st, command) ==
  IF st.brushTip = Null
    THEN throw(st, TypeError)
    ELSE
      LET x == command.args[1]
          point == shiftPointIfNeeded(st.brushTip, command.name,
                                      <<x, st.brushTip[2]>>)
      IN  IF isThrown(point)
            THEN throw(st, point[1])
            ELSE [st EXCEPT
                    !.geometry = Append(@, [kind |-> "line",
                                            p1 |-> st.brushTip,
                                            p2 |-> point]),
                    !.brushTip = point]

\* case "V": case "v":  the argument [brushTip[0], y] is built first.
caseVerticalLineTo(st, command) ==
  IF st.brushTip = Null
    THEN throw(st, TypeError)
    ELSE
      LET y == command.args[1]
          point == shiftPointIfNeeded(st.brushTip, command.name,
                                      <<st.brushTip[1], y>>)
      IN  IF isThrown(point)
            THEN throw(st, point[1])
            ELSE [st EXCEPT
                    !.geometry = Append(@, [kind |-> "line",
                                            p1 |-> st.brushTip,
                                            p2 |-> point]),
                    !.brushTip = point]

\* Mutant of caseCubicBezier: the brush tip stays where it was.
caseCubicBezierKeepsBrushTip(st, command) ==
  IF st.brushTip = Null /\ toUpperCase(command.name) # command.name
    THEN throw(st, BrushTipNotSet)
    ELSE
      LET a == command.args
          controlPoint1 == shiftPointIfNeeded(st.brushTip, command.name, <<a[1], a[2]>>)
          controlPoint2 == shiftPointIfNeeded(st.brushTip, command.name, <<a[3], a[4]>>)
          endPoint == shiftPointIfNeeded(st.brushTip, command.name, <<a[5], a[6]>>)
      IN  [st EXCEPT
             !.geometry = Append(@, [kind |-> "cubicBezier",
                                     p1 |-> st.brushTip,
                                     cp1 |-> controlPoint1,
                                     cp2 |-> controlPoint2,
                                     p2 |-> endPoint])]

\* Mutant of caseCubicBezier: each pair of a relative command is resolved
\* against the point resolved before it, not against the brush tip.
caseCubicBezierSequential(st, command) ==
  LET a == command.args
      controlPoint1 == shiftPointIfNeeded(st.brushTip, command.name, <<a[1], a[2]>>)
      controlPoint2 == shiftPointIfNeeded(controlPoint1, command.name, <<a[3], a[4]>>)
      endPoint == shiftPointIfNeeded(controlPoint2, command.name, <<a[5], a[6]>>)
  IN  IF isThrown(controlPoint1)
        THEN throw(st, controlPoint1[1])
        ELSE [st EXCEPT
                !.geometry = Append(@, [kind |-> "cubicBezier",
                                        p1 |-> st.brushTip,
                                        cp1 |-> controlPoint1,
                                        cp2 |-> controlPoint2,
                                        p2 |-> endPoint]),
                !.brushTip = endPoint]

\* case "C": case "c":
caseCubicBezier(st, command) ==
  LET a == command.args
      controlPoint1 == shiftPointIfNeeded(st.brushTip, command.name, <<a[1], a[2]>>)
      controlPoint2 == shiftPointIfNeeded(st.brushTip, command.name, <<a[3], a[4]>>)
      endPoint == shiftPointIfNeeded(st.brushTip, command.name, <<a[5], a[6]>>)
  IN  IF isThrown(controlPoint1)
        THEN throw(st, controlPoint1[1])
        ELSE [st EXCEPT
                !.geometry = Append(@, [kind |-> "cubicBezier",
                                        p1 |-> st.brushTip,
                                        cp1 |-> controlPoint1,
                                        cp2 |-> controlPoint2,
                                        p2 |-> endPoint]),
                !.brushTip = endPoint]

\* case "Q": case "q":
caseQuadraticBezier(st, command) ==
  LET a == command.args
      controlPoint == shiftPointIfNeeded(st.brushTip, command.name, <<a[1], a[2]>>)
      endPoint == shiftPointIfNeeded(st.brushTip, command.name, <<a[3], a[4]>>)
  IN  IF isThrown(controlPoint)
        THEN throw(st, controlPoint[1])
        ELSE [st EXCEPT
                !.geometry = Append(@, [kind |-> "quadraticBezier",
                                        p1 |-> st.brushTip,
                                        cp |-> controlPoint,
                                        p2 |-> endPoint]),
                !.brushTip = endPoint]

\* case "A": case "a":  the arc is pushed; setBrushTip is not called.
caseArc(st, command) ==
  LET a == command.args
      absoluteStart == shiftPointIfNeeded(st.brushTip, command.name, <<0, 0>>)
      absoluteEnd == shiftPointIfNeeded(st.brushTip, command.name, <<a[6], a[7]>>)
  IN  IF isThrown(absoluteStart)
        THEN throw(st, absoluteStart[1])
        ELSE [st EXCEPT
                !.geometry = Append(@, [kind |-> "ellipseArc",
                                        absoluteStart |-> absoluteStart,
                                        rX |-> a[1],
                                        rY |-> a[2],
                                        angle |-> a[3],
                                        largeArcFlag |-> a[4],
                                        sweepFlag |-> a[5],
                                        absoluteEnd |-> absoluteEnd])]

\* geometry.length && geometry[0].p1  (an absent or null p1 is falsy)
firstPrimitiveHasP1(geometry) ==
  /\ Len(geometry) # 0
  /\ "p1" \in DOMAIN geometry[1]
  /\ geometry[1].p1 # Null

\* case "Z": case "z":
caseClosePath(st, command) ==
  IF firstPrimitiveHasP1(st.geometry)
    THEN [st EXCEPT
            !.geometry = Append(@, [kind |-> "line",
                                    p1 |-> st.brushTip,
                                    p2 |-> st.geometry[1].p1])]
    ELSE st

\* Mutant of caseDefault: an unknown command is skipped.
caseDefaultSkips(st, command) == st

\* default:
caseDefault(st, command) == throw(st, UnsupportedSVGCommand)

\* function processCommand(command): the switch on command.name
processCommand(st, command) ==
  CASE command.name \in {"M", "m"} -> caseMoveTo(st, command)
    [] command.name \in {"L", "l"} -> caseLineTo(st, command)
    [] command.name \in {"H", "h"} -> caseHorizontalLineTo(st, command)
    [] command.name \in {"V", "v"} -> caseVerticalLineTo(st, command)
    [] command.name \in {"C", "c"} -> caseCubicBezier(st, command)
    [] command.name \in {"Q", "q"} -> caseQuadraticBezier(st, command)
    [] command.name \in {"A", "a"} -> caseArc(st, command)
    [] command.name \in {"Z", "z"} -> caseClosePath(st, command)
    [] OTHER -> caseDefault(st, command)

\* The locals of executeSVGStateMachine on entry.
entry == [geometry |-> <<>>, brushTip |-> Null, error |-> ""]

\* The locals after the for-loop has taken the first n commands; an exception
\* ends the loop.
RECURSIVE executePrefix(_, _)
executePrefix(commands, n) ==
  IF n = 0
    THEN entry
    ELSE LET st == executePrefix(commands, n - 1)
         IN  IF st.error # "" THEN st ELSE processCommand(st, commands[n])

\* function executeSVGStateMachine(svgCommands), as a function of its argument
executeSVGStateMachine(commands) == executePrefix(commands, Len(commands))

----------------------------------------------------------------------------
(* combineBoundingBoxes.  Its values carry their JavaScript type:          *)
(*   [type |-> "null"], [type |-> "undefined"],                            *)
(*   [type |-> "object", x, y, width, height]   a box,                     *)
(*   [type |-> "array", items |-> <<...>>]      an array;                   *)
(* a number is [inf |-> 0, n |-> v] when finite, and Infinity, -Infinity   *)
(* and NaN are numbers of their own.                                       *)

null == [type |-> "null"]
undefined == [type |-> "undefined"]
array(items) == [type |-> "array", items |-> items]

number(v) == [inf |-> 0, n |-> v]
Infinity == [inf |-> 1, n |-> 0]
NegativeInfinity == [inf |-> -1, n |-> 0]
NaN == [inf |-> 2, n |-> 0]

\* a < b on numbers other than NaN
lessThan(a, b) ==
  IF a.inf = 0 /\ b.inf = 0 THEN a.n < b.n ELSE a.inf < b.inf

\* Math.min(a, b) and Math.max(a, b)
MathMin(a, b) ==
  IF a = NaN \/ b = NaN THEN NaN ELSE IF lessThan(b, a) THEN b ELSE a

MathMax(a, b) ==
  IF a = NaN \/ b = NaN THEN NaN ELSE IF lessThan(a, b) THEN b ELSE a

\* a + b
plus(a, b) ==
  CASE a = NaN \/ b = NaN -> NaN
    [] a.inf = 0 /\ b.inf = 0 -> number(a.n + b.n)
    [] a.inf = 0 -> b
    [] b.inf = 0 -> a
    [] a.inf = b.inf -> a
    [] OTHER -> NaN

\* -a
negated(a) == IF a = NaN THEN NaN ELSE [inf |-> 0 - a.inf, n |-> 0 - a.n]

\* a - b
minus(a, b) == plus(a, negated(b))

\* if (item): null and undefined are falsy, objects and arrays are truthy
truthy(item) == item.type \notin {"null", "undefined"}

\* Array.isArray(value)
isArray(value) == value.type = "array"

\* The for-loop of combineBoundingBoxes over the first n items; acc holds
\* minX, minY, maxX, maxY.
RECURSIVE extent(_, _)
extent(items, n) ==
  IF n = 0
    THEN [minX |-> Infinity, minY |-> Infinity,
          maxX |-> NegativeInfinity, maxY |-> NegativeInfinity]
    ELSE LET acc == extent(items, n - 1)
             item == items[n]
         IN  IF truthy(item)
               THEN [minX |-> MathMin(acc.minX, item.x),
                     minY |-> MathMin(acc.minY, item.y),
                     maxX |-> MathMax(acc.maxX, plus(item.x, item.width)),
                     maxY |-> MathMax(acc.maxY, plus(item.y, item.height))]
               ELSE acc

\* Mutant of combineBoundingBoxes: width and height are the far edges, the
\* origin is not subtracted.
combineBoundingBoxesFarEdge(boxes) ==
  IF Len(boxes) = 0
    THEN null
    ELSE LET items == IF isArray(boxes[1]) THEN boxes[1].items ELSE boxes
             acc == extent(items, Len(items))
         IN  [type |-> "object",
              x |-> acc.minX,
              y |-> acc.minY,
              width |-> acc.maxX,
              height |-> acc.maxY]

\* export function combineBoundingBoxes(...boxes): boxes is the array of the
\* call's arguments.
combineBoundingBoxes(boxes) ==
  IF Len(boxes) = 0
    THEN null
    ELSE LET items == IF isArray(boxes[1]) THEN boxes[1].items ELSE boxes
             acc == extent(items, Len(items))
         IN  [type |-> "object",
              x |-> acc.minX,
              y |-> acc.minY,
              width |-> minus(acc.maxX, acc.minX),
              height |-> minus(acc.maxY, acc.minY)]

----------------------------------------------------------------------------
(* spline.js: performCatmullRom, performCanonicalSpline and                *)
(* buildSimplePathDString.  A call's outcome is the record                 *)
(*   [thrown |-> the message of the Error thrown, "" if none,              *)
(*    value  |-> the value returned].                                      *)
(* A string is the sequence of its characters.  Numbers are integers: the  *)
(* inputs are those on which the divisions by 2, 3 and 6 are exact.        *)

returns(value) == [thrown |-> "", value |-> value]
throws(message) == [thrown |-> message, value |-> <<>>]

\* The messages of the errors of spline.js.
AtLeast1PointRequired == "At least 1 point required"
\* (the code puts the number of points in front of this one)
NotASimpleCurve == "points do not form a simple curve"
PointsMustBe234 == "# Points must be 2, 3, or 4"

\* a / b where b divides a
quotient(a, b) == a \div b

\* Math.max(a, b) and Math.min(a, b) on array indices
indexMax(a, b) == IF a > b THEN a ELSE b
indexMin(a, b) == IF a < b THEN a ELSE b

\* points[k] of the code, k counted from 0
at(points, k) == points[k + 1]

\* Mutant of catmullRomSegment: the tension is clamped to [0, 1].
catmullRomSegmentClamped(points, tension, k) ==
  LET clamped == indexMax(0, indexMin(tension, 1))
      p0 == at(points, indexMax(k - 1, 0))
      p1 == at(points, k)
      p2 == at(points, k + 1)
      p3 == at(points, indexMin(k + 2, Len(points) - 1))
      t1x == quotient(p2[1] - p0[1], 2) * clamped
      t1y == quotient(p2[2] - p0[2], 2) * clamped
      t2x == quotient(p3[1] - p1[1], 2) * clamped
      t2y == quotient(p3[2] - p1[2], 2) * clamped
      cp1 == <<p1[1] + quotient(t1x, 3), p1[2] + quotient(t1y, 3)>>
      cp2 == <<p2[1] - quotient(t2x, 3), p2[2] - quotient(t2y, 3)>>
  IN  <<p1, cp1, cp2, p2>>

\* The body of performCatmullRom's loop for index k (from 0): [p1, cp1, cp2, p2]
catmullRomSegment(points, tension, k) ==
  LET p0 == at(points, indexMax(k - 1, 0))
      p1 == at(points, k)
      p2 == at(points, k + 1)
      p3 == at(points, indexMin(k + 2, Len(points) - 1))
      t1x == quotient(p2[1] - p0[1], 2) * tension
      t1y == quotient(p2[2] - p0[2], 2) * tension
      t2x == quotient(p3[1] - p1[1], 2) * tension
      t2y == quotient(p3[2] - p1[2], 2) * tension
      cp1 == <<p1[1] + quotient(t1x, 3), p1[2] + quotient(t1y, 3)>>
      cp2 == <<p2[1] - quotient(t2x, 3), p2[2] - quotient(t2y, 3)>>
  IN  <<p1, cp1, cp2, p2>>

\* Mutant of performCatmullRom: the loop stops one segment early
\* (i < points.length - 2).
performCatmullRomShortLoop(points, tension) ==
  IF Len(points) = 0
    THEN throws(AtLeast1PointRequired)
    ELSE IF Len(points) < 4
      THEN returns(<<points>>)
      ELSE returns([k \in 1..(Len(points) - 2) |->
                      catmullRomSegment(points, tension, k - 1)])

\* Mutant of performCatmullRom: the length checks are in the wrong order, so
\* an empty input is returned as a short one.
performCatmullRomNoEmptyCheck(points, tension) ==
  IF Len(points) < 4
    THEN returns(<<points>>)
    ELSE returns([k \in 1..(Len(points) - 1) |->
                    catmullRomSegment(points, tension, k - 1)])

\* export function performCatmullRom(points, tension = 1.0):
\* for (let i = 0; i < points.length - 1; i++)
performCatmullRom(points, tension) ==
  IF Len(points) = 0
    THEN throws(AtLeast1PointRequired)
    ELSE IF Len(points) < 4
      THEN returns(<<points>>)
      ELSE returns([k \in 1..(Len(points) - 1) |->
                      catmullRomSegment(points, tension, k - 1)])

\* Mutant of canonicalSplineSegment: the differences are divided by 3.
canonicalSplineSegmentThirds(points, tension, k) ==
  LET p0 == at(points, k - 1)
      p1 == at(points, k)
      p2 == at(points, k + 1)
      p3 == at(points, k + 2)
      cp1x == p1[1] + quotient(p2[1] - p0[1], 3) * tension
      cp1y == p1[2] + quotient(p2[2] - p0[2], 3) * tension
      cp2x == p2[1] - quotient(p3[1] - p1[1], 3) * tension
      cp2y == p2[2] - quotient(p3[2] - p1[2], 3) * tension
  IN  <<p1, <<cp1x, cp1y>>, <<cp2x, cp2y>>, p2>>

\* The body of performCanonicalSpline's loop for index k (from 0)
canonicalSplineSegment(points, tension, k) ==
  LET p0 == at(points, k - 1)
      p1 == at(points, k)
      p2 == at(points, k + 1)
      p3 == at(points, k + 2)
      cp1x == p1[1] + quotient(p2[1] - p0[1], 6) * tension
      cp1y == p1[2] + quotient(p2[2] - p0[2], 6) * tension
      cp2x == p2[1] - quotient(p3[1] - p1[1], 6) * tension
      cp2y == p2[2] - quotient(p3[2] - p1[2], 6) * tension
  IN  <<p1, <<cp1x, cp1y>>, <<cp2x, cp2y>>, p2>>

\* Mutant of performCanonicalSpline: short inputs are those of fewer than 4
\* points, as in performCatmullRom.
performCanonicalSplineShortBelow4(points, tension) ==
  IF Len(points) = 0
    THEN throws(AtLeast1PointRequired)
    ELSE IF Len(points) < 4
      THEN returns(<<points>>)
      ELSE returns([k \in 1..(Len(points) - 3) |->
                      catmullRomSegment(points, tension, k)])

\* Mutant of performCanonicalSpline: short inputs are those of fewer than 6
\* points.
performCanonicalSplineShortBelow6(points, tension) ==
  IF Len(points) = 0
    THEN throws(AtLeast1PointRequired)
    ELSE IF Len(points) < 6
      THEN returns(<<points>>)
      ELSE returns([k \in 1..(Len(points) - 3) |->
                      canonicalSplineSegment(points, tension, k)])

\* Mutant of performCanonicalSpline: the loop starts at the first point, the
\* neighbour before it clamped.
performCanonicalSplineFromFirst(points, tension) ==
  IF Len(points) = 0
    THEN throws(AtLeast1PointRequired)
    ELSE IF Len(points) < 5
      THEN returns(<<points>>)
      ELSE returns([k \in 1..(Len(points) - 2) |->
                      catmullRomSegment(points, tension, k - 1)])

\* export function performCanonicalSpline(points, tension = 1.0):
\* for (let i = 1; i < points.length - 2; i++)
performCanonicalSpline(points, tension) ==
  IF Len(points) = 0
    THEN throws(AtLeast1PointRequired)
    ELSE IF Len(points) < 5
      THEN returns(<<points>>)
      ELSE returns([k \in 1..(Len(points) - 3) |->
                      canonicalSplineSegment(points, tension, k)])

\* The decimal digits of a natural number.
RECURSIVE digits(_)
digits(n) ==
  LET last == <<<<"0", "1", "2", "3", "4", "5", "6", "7", "8", "9">>[(n % 10) + 1]>>
  IN  IF n < 10 THEN last ELSE digits(n \div 10) \o last

\* `${n}` for an integer n
toString(n) == IF n < 0 THEN <<"-">> \o digits(0 - n) ELSE digits(n)

\* `${p[0]} ${p[1]}` for a point p
coordinates(p) == toString(p[1]) \o <<" ">> \o toString(p[2])

\* The double-quoted (not interpolated) string
\* "M ${points[0][0]} ${points[0][1]} "
individualPrefix ==
  <<"M", " ",
    "$", "{", "p", "o", "i", "n", "t", "s", "[", "0", "]", "[", "0", "]", "}",
    " ",
    "$", "{", "p", "o", "i", "n", "t", "s", "[", "0", "]", "[", "1", "]", "}",
    " ">>

\* Mutant of buildSimplePathDString: only the first check is made, and a
\* length without a case falls out of the switch with what s holds.
buildSimplePathDStringNoLengthCheck(points, individual) ==
  IF Len(points) > 4
    THEN throws(NotASimpleCurve)
    ELSE
      LET s == IF individual THEN individualPrefix ELSE <<>>
      IN  CASE Len(points) = 2 ->
                 returns(s \o <<"L", " ">> \o coordinates(at(points, 1)))
            [] Len(points) = 3 ->
                 returns(s \o <<"Q", " ">> \o coordinates(at(points, 1))
                           \o <<" ">> \o coordinates(at(points, 2)))
            [] Len(points) = 4 ->
                 returns(s \o <<"C", " ">> \o coordinates(at(points, 1))
                           \o <<" ">> \o coordinates(at(points, 2))
                           \o <<" ">> \o coordinates(at(points, 3)))
            [] OTHER -> returns(s)

\* Mutant of buildSimplePathDString: the token repeats the leading point.
buildSimplePathDStringWithLeading(points, individual) ==
  IF Len(points) > 4
    THEN throws(NotASimpleCurve)
    ELSE IF Len(points) \notin {2, 3, 4}
      THEN throws(PointsMustBe234)
      ELSE
        LET s == IF individual THEN individualPrefix ELSE <<>>
        IN  CASE Len(points) = 2 ->
                   returns(s \o <<"L", " ">> \o coordinates(at(points, 0))
                             \o <<" ">> \o coordinates(at(points, 1)))
              [] Len(points) = 3 ->
                   returns(s \o <<"Q", " ">> \o coordinates(at(points, 0))
                             \o <<" ">> \o coordinates(at(points, 1))
                             \o <<" ">> \o coordinates(at(points, 2)))
              [] Len(points) = 4 ->
                   returns(s \o <<"C", " ">> \o coordinates(at(points, 0))
                             \o <<" ">> \o coordinates(at(points, 1))
                             \o <<" ">> \o coordinates(at(points, 2))
                             \o <<" ">> \o coordinates(at(points, 3)))

\* export function buildSimplePathDString(points, individual = true)
buildSimplePathDString(points, individual) ==
  IF Len(points) > 4
    THEN throws(NotASimpleCurve)
    ELSE IF Len(points) \notin {2, 3, 4}
      THEN throws(PointsMustBe234)
      ELSE
        LET s == IF individual THEN individualPrefix ELSE <<>>
        IN  CASE Len(points) = 2 ->
                   returns(s \o <<"L", " ">> \o coordinates(at(points, 1)))
              [] Len(points) = 3 ->
                   returns(s \o <<"Q", " ">> \o coordinates(at(points, 1))
                             \o <<" ">> \o coordinates(at(points, 2)))
              [] Len(points) = 4 ->
                   returns(s \o <<"C", " ">> \o coordinates(at(points, 1))
                             \o <<" ">> \o coordinates(at(points, 2))
                             \o <<" ">> \o coordinates(at(points, 3)))

\* array.join(" ") for an array of strings
RECURSIVE join(_)
join(strings) ==
  IF Len(strings) = 0 THEN <<>>
  ELSE IF Len(strings) = 1 THEN strings[1]
  ELSE strings[1] \o <<" ">> \o join(Tail(strings))

\* Mutant of buildSplineDString: every segment is written as a curve of its
\* own, move-to included.
buildSplineDStringIndividual(points, tension) ==
  LET decomposed == performCatmullRom(points, tension)
  IN  IF decomposed.thrown # ""
        THEN decomposed
        ELSE
          LET tokens == [k \in 1..Len(decomposed.value) |->
                           buildSimplePathDString(decomposed.value[k], TRUE)]
              failed == {k \in 1..Len(tokens) : tokens[k].thrown # ""}
          IN  IF failed # {}
                THEN tokens[CHOOSE k \in failed : \A j \in failed : k <= j]
                ELSE returns(<<"M", " ">> \o coordinates(at(points, 0))
                               \o join([k \in 1..Len(tokens) |-> tokens[k].value]))

\* Mutant of buildSplineDString: the segments are written last to first.
buildSplineDStringReversed(points, tension) ==
  LET decomposed == performCatmullRom(points, tension)
  IN  IF decomposed.thrown # ""
        THEN decomposed
        ELSE
          LET count == Len(decomposed.value)
              tokens == [k \in 1..count |->
                           buildSimplePathDString(decomposed.value[count + 1 - k], FALSE)]
              failed == {k \in 1..Len(tokens) : tokens[k].thrown # ""}
          IN  IF failed # {}
                THEN tokens[CHOOSE k \in failed : \A j \in failed : k <= j]
                ELSE returns(<<"M", " ">> \o coordinates(at(points, 0))
                               \o join([k \in 1..Len(tokens) |-> tokens[k].value]))

\* export function buildSplineDString(points, tension = 1.0):
\* `M ${points[0][0]} ${points[0][1]}` +
\*   decomposed.map((c) => buildSimplePathDString(c, false)).join(" ")
\* The first call that throws ends it.
buildSplineDString(points, tension) ==
  LET decomposed == performCatmullRom(points, tension)
  IN  IF decomposed.thrown # ""
        THEN decomposed
        ELSE
          LET tokens == [k \in 1..Len(decomposed.value) |->
                           buildSimplePathDString(decomposed.value[k], FALSE)]
              failed == {k \in 1..Len(tokens) : tokens[k].thrown # ""}
          IN  IF failed # {}
                THEN tokens[CHOOSE k \in failed : \A j \in failed : k <= j]
                ELSE returns(<<"M", " ">> \o coordinates(at(points, 0))
                               \o join([k \in 1..Len(tokens) |-> tokens[k].value]))

\* A box with integer coordinates.
box(x, y, width, height) ==
  [type |-> "object", x |-> number(x), y |-> number(y),
   width |-> number(width), height |-> number(height)]

----------------------------------------------------------------------------
(* SVGBuilder: its identifiers, addPath and the content bounding box.     *)
(* `self` is this: [elements, defs, idMap, uniqueIdCounter, objects],     *)
(* where objects holds the gradient and filter objects of the caller,     *)
(* which withUniqueId writes to:                                           *)
(*   objects[name] = [kind, data, id], id = noId while it has no id.      *)
(* A value handed to the builder is undefined, a string or a reference to *)
(* one of these objects.  The identifier `id${n}` is the number n.         *)

string(s) == [type |-> "string", s |-> s]
ref(name) == [type |-> "object", name |-> name]

\* The id of an object that has no id property.
noId == 0 - 1

\* JSON.stringify(item): the text of a string, the own properties of an
\* object, its id among them once it has one.
stringify(objects, item) ==
  IF item.type = "string"
    THEN <<item.s>>
    ELSE LET o == objects[item.name]
         IN  IF o.id = noId THEN <<o.kind, o.data>> ELSE <<o.kind, o.data, o.id>>

\* map.set(key, value)
set(map, key, value) ==
  [k \in DOMAIN map \cup {key} |-> IF k = key THEN value ELSE map[k]]

\* Mutant of getUniqueId: the map is never consulted.
getUniqueIdAlwaysNew(self, prefix, identifyingData) ==
  [self |-> [self EXCEPT !.uniqueIdCounter = @ + 1],
   id |-> self.uniqueIdCounter]

\* getUniqueId(prefix, identifyingData): this afterwards, and the id returned
getUniqueId(self, prefix, identifyingData) ==
  IF truthy(identifyingData)
    THEN LET key == <<prefix, stringify(self.objects, identifyingData)>>
         IN  IF key \notin DOMAIN self.idMap
               THEN [self |-> [self EXCEPT
                                 !.uniqueIdCounter = @ + 1,
                                 !.idMap = set(@, key, self.uniqueIdCounter)],
                     id |-> self.uniqueIdCounter]
               ELSE [self |-> self, id |-> self.idMap[key]]
    ELSE [self |-> [self EXCEPT !.uniqueIdCounter = @ + 1],
          id |-> self.uniqueIdCounter]

\* withUniqueId(prefix, item): this afterwards; what it returns is item
withUniqueId(self, prefix, item) ==
  LET unique == getUniqueId(self, prefix, item)
  IN  IF item.type = "object"
        THEN [unique.self EXCEPT !.objects[item.name].id = unique.id]
        ELSE unique.self

\* The empty string.
emptyString == [tag |-> ""]

compileLinearGradient(gradient) == [tag |-> "linearGradient", id |-> gradient.id]
compileRadialGradient(gradient) == [tag |-> "radialGradient", id |-> gradient.id]

compileStrokeOrFill(objects, strokeOrFill) ==
  IF strokeOrFill.type = "object"
    THEN CASE objects[strokeOrFill.name].kind = "linear-gradient" ->
                compileLinearGradient(objects[strokeOrFill.name])
           [] objects[strokeOrFill.name].kind = "radial-gradient" ->
                compileRadialGradient(objects[strokeOrFill.name])
           [] OTHER -> emptyString
    ELSE emptyString

compileDropShadow(objects, dropShadow) ==
  [tag |-> "filter", id |-> objects[dropShadow.name].id, of |-> "feDropShadow"]

compileGaussianBlur(objects, gaussianBlur) ==
  [tag |-> "filter", id |-> objects[gaussianBlur.name].id, of |-> "feGaussianBlur"]

\* stroke="..." and fill="..." of a path element
paint(objects, strokeOrFill) ==
  IF truthy(strokeOrFill)
    THEN IF strokeOrFill.type = "string"
           THEN <<strokeOrFill.s>>
           ELSE <<"url", objects[strokeOrFill.name].id>>
    ELSE <<"none">>

\* compilePathElement(d, stroke, strokeWidth = 1.0, fill, opacity = 1.0,
\* transform) with strokeWidth, opacity and transform left out by the caller:
\* the attributes of the <path .../> text.
compilePathElement(objects, d, stroke, fill) ==
  [d |-> d,
   stroke |-> paint(objects, stroke),
   fill |-> paint(objects, fill),
   opacity |-> 1,
   strokeWidth |-> 1,
   transform |-> ""]

\* Boolean(v) for a definition text or a value
Boolean(v) == IF "tag" \in DOMAIN v THEN v.tag # "" ELSE truthy(v)

\* u && compile(u)
and(u, compiled) == IF truthy(u) THEN compiled ELSE u

\* addPath(d, stroke, strokeWidth, fill, opacity, transform, dropShadow,
\* gaussianBlur) with strokeWidth, opacity and transform undefined
addPath(self, d, stroke, fill, dropShadow, gaussianBlur) ==
  LET self1 == withUniqueId(self, "fill", fill)
      self2 == withUniqueId(self1, "stroke", stroke)
      self3 == withUniqueId(self2, "dropShadow", dropShadow)
      self4 == withUniqueId(self3, "gaussianBlur", gaussianBlur)
      objects == self4.objects
      pathElement == compilePathElement(objects, d, stroke, fill)
      candidates ==
        <<and(fill, compileStrokeOrFill(objects, fill)),
          and(stroke, compileStrokeOrFill(objects, stroke)),
          IF truthy(dropShadow)
            THEN compileDropShadow(objects, dropShadow) ELSE dropShadow,
          IF truthy(gaussianBlur)
            THEN compileGaussianBlur(objects, gaussianBlur) ELSE gaussianBlur>>
  IN  [self4 EXCEPT
         !.elements = Append(@, pathElement),
         !.defs = @ \o SelectSeq(candidates, Boolean)]

\* setDropShadow(dropShadow): this afterwards
setDropShadow(self, dropShadow) ==
  LET self1 == withUniqueId(self, "dropShadow", dropShadow)
  IN  [self1 EXCEPT
         !.defs = Append(@, compileDropShadow(self1.objects, dropShadow))]

\* setGaussianBlur(gaussianBlur): this afterwards
setGaussianBlur(self, gaussianBlur) ==
  LET self1 == withUniqueId(self, "gaussianBlur", gaussianBlur)
  IN  [self1 EXCEPT
         !.defs = Append(@, compileGaussianBlur(self1.objects, gaussianBlur))]

\* buildDStringForRectangle(x, y, width, height): the text
\* `M ${x} ${y} h ${width} v ${height} h ${-width} Z`, kept as its numbers.
buildDStringForRectangle(x, y, width, height) ==
  [x |-> x, y |-> y, width |-> width, height |-> height]

\* getBounds(d) of the package svg-path-bounding-box, for the path of a
\* rectangle with width and height above 0.
getBounds(d) ==
  [minX |-> number(d.x), minY |-> number(d.y),
   width |-> number(d.width), height |-> number(d.height)]

\* The number of matches of /d\s*=\s*("|')\s*(.*?)\s*("|')/gis in the text of
\* an element: the d attribute, and no other attribute of a path element
\* ends in d.
matches(elementText) == 1

\* throw new Error("Invalid path data")
InvalidPathData == [type |-> "error", message |-> "Invalid path data"]

\* getContentBoundingBox.incorporateBoundingBox(box): boundingBox afterwards
incorporateBoundingBox(boundingBox, rectangle) ==
  IF boundingBox = null
    THEN rectangle
    ELSE combineBoundingBoxes(<<boundingBox, rectangle>>)

\* getContentBoundingBox.processElement(elementText): boundingBox afterwards,
\* or the error thrown
processElement(boundingBox, elementText) ==
  IF boundingBox = InvalidPathData
    THEN boundingBox
    ELSE IF matches(elementText) # 1
      THEN InvalidPathData
      ELSE LET bounds == getBounds(elementText.d)
           IN  incorporateBoundingBox(boundingBox,
                 [type |-> "object", x |-> bounds.minX, y |-> bounds.minY,
                  width |-> bounds.width, height |-> bounds.height])

\* The loop of getContentBoundingBox over the first count elements.
RECURSIVE processElements(_, _)
processElements(elements, count) ==
  IF count = 0
    THEN null
    ELSE processElement(processElements(elements, count - 1), elements[count])

\* Mutant of getContentBoundingBox: the box of the last element alone.
getContentBoundingBoxLastOnly(elements) ==
  IF Len(elements) = 0
    THEN null
    ELSE processElement(null, elements[Len(elements)])

\* getContentBoundingBox()
getContentBoundingBox(elements) == processElements(elements, Len(elements))

\* adjustViewboxToFitContent(): viewBox afterwards (the error, if one is
\* thrown), and whether console.warn was called
adjustViewboxToFitContent(elements, viewBox) ==
  LET boundingBox == getContentBoundingBox(elements)
  IN  IF boundingBox = InvalidPathData
        THEN [viewBox |-> InvalidPathData, warned |-> FALSE]
        ELSE IF truthy(boundingBox)
          THEN [viewBox |-> getContentBoundingBox(elements), warned |-> FALSE]
          ELSE [viewBox |-> viewBox, warned |-> TRUE]

----------------------------------------------------------------------------
(* The path text as commands.  The source holds no code that reads a path  *)
(* text into the SVGCommand objects executeSVGStateMachine takes; this is  *)
(* the token grammar of the specification, section 6: a command letter     *)
(* followed by numeric literals separated by whitespace or commas.         *)

\* The characters of the text the record d of buildDStringForRectangle
\* stands for: `M ${x} ${y} h ${width} v ${height} h ${-width} Z`
text(d) ==
  <<"M", " ">> \o toString(d.x) \o <<" ">> \o toString(d.y)
    \o <<" ", "h", " ">> \o toString(d.width)
    \o <<" ", "v", " ">> \o toString(d.height)
    \o <<" ", "h", " ">> \o toString(0 - d.width)
    \o <<" ", "Z">>

PathLetters ==
  {"M", "m", "L", "l", "H", "h", "V", "v", "C", "c", "Q", "q", "A", "a", "Z", "z"}
Separators == {" ", ","}

\* The digit a character is.
digitValue(c) == CHOOSE v \in 0..9 : digits(v) = <<c>>

\* The natural number a string of digits is.
RECURSIVE natural(_)
natural(literal) ==
  IF literal = <<>> THEN 0
  ELSE natural(SubSeq(literal, 1, Len(literal) - 1)) * 10
         + digitValue(literal[Len(literal)])

\* The number a numeric literal is.
parseNumber(literal) ==
  IF literal[1] = "-" THEN 0 - natural(Tail(literal)) ELSE natural(literal)

\* The first position from k on whose character is in among (is not in among),
\* Len(s) + 1 if there is none.
firstIn(s, k, among) ==
  CHOOSE e \in k..(Len(s) + 1) :
    /\ e = Len(s) + 1 \/ s[e] \in among
    /\ \A j \in k..(e - 1) : s[j] \notin among
firstNotIn(s, k, among) ==
  CHOOSE e \in k..(Len(s) + 1) :
    /\ e = Len(s) + 1 \/ s[e] \notin among
    /\ \A j \in k..(e - 1) : s[j] \in among

\* The literals of s from position k on.
RECURSIVE literalsFrom(_, _)
literalsFrom(s, k) ==
  LET start == firstNotIn(s, k, Separators)
      end == firstIn(s, start, Separators)
  IN  IF start > Len(s)
        THEN <<>>
        ELSE <<SubSeq(s, start, end - 1)>> \o literalsFrom(s, end)

\* The command a clause is: its letter and the numbers after it.
command(c) ==
  [name |-> c[1],
   args |-> LET literals == literalsFrom(c, 2)
            IN  [j \in 1..Len(literals) |-> parseNumber(literals[j])]]

\* The commands of s from the command letter at position k on.
RECURSIVE commandsFrom(_, _)
commandsFrom(s, k) ==
  IF k > Len(s)
    THEN <<>>
    ELSE LET end == firstIn(s, k + 1, PathLetters)
         IN  <<command(SubSeq(s, k, end - 1))>> \o commandsFrom(s, end)

\* The commands of a path text.
parse(s) == commandsFrom(s, firstIn(s, 1, PathLetters))

----------------------------------------------------------------------------
(* Artist: the path texts it collects and hands to its SVGBuilder.  An      *)
(* artist is [stroke, fill, dropShadow, gaussianBlur, definitions]; its     *)
(* parentSVGBuilder is the one builder of the model.  A point with the      *)
(* properties x and y is the record [x, y].                                 *)

\* The message of the TypeError of reading [0] of undefined.
CannotReadUndefined == "Cannot read properties of undefined (reading '0')"

\* buildDStringForEllipse(x, y, rx, ry)
buildDStringForEllipse(x, y, rx, ry) ==
  LET a(dx) == <<" ", "a", " ">> \o toString(rx) \o <<" ">> \o toString(ry)
                 \o <<" ", "0", " ", "1", " ", "0", " ">> \o toString(dx)
                 \o <<" ", "0">>
  IN  <<"M", " ">> \o toString(x - rx) \o <<" ">> \o toString(y)
        \o a(2 * rx) \o a((0 - 2) * rx)

\* buildDStringForLine(A, B)
buildDStringForLine(A, B) ==
  <<"M", " ">> \o toString(A.x) \o <<" ">> \o toString(A.y)
    \o <<" ", "L", " ">> \o toString(B.x) \o <<" ">> \o toString(B.y)

\* The for-loop of buildDStringForLineSequence from index k (from 0) on.
RECURSIVE lineTos(_, _)
lineTos(path, k) ==
  IF k >= Len(path)
    THEN <<>>
    ELSE <<" ", "L", " ">> \o coordinates(at(path, k)) \o lineTos(path, k + 1)

\* buildDStringForLineSequence(points, close): its outcome.
buildDStringForLineSequence(path, close) ==
  IF Len(path) = 0
    THEN throws(CannotReadUndefined)
    ELSE returns(<<"M", " ">> \o coordinates(at(path, 0)) \o lineTos(path, 1)
                   \o (IF close THEN <<" ", "Z">> ELSE <<>>))

\* new Artist(stroke, ..., fill, ..., dropShadow, gaussianBlur, parent)
Artist(stroke, fill, dropShadow, gaussianBlur) ==
  [stroke |-> stroke, fill |-> fill, dropShadow |-> dropShadow,
   gaussianBlur |-> gaussianBlur, definitions |-> <<>>]

\* this.definitions.push(d): the artist afterwards
push(self, d) == [self EXCEPT !.definitions = Append(@, d)]

\* Mutant of compile: the text collected last alone.
compileLast(self) ==
  IF self.definitions = <<>>
    THEN <<>>
    ELSE self.definitions[Len(self.definitions)]

\* compile()
compile(self) == join(self.definitions)

\* commit(): the parent builder afterwards
commit(self, parentSVGBuilder) ==
  addPath(parentSVGBuilder, compile(self), self.stroke, self.fill,
          self.dropShadow, self.gaussianBlur)

----------------------------------------------------------------------------
(* The inputs the model draws from *)

\* Argument lists, by the number of arguments a command destructures.
PairArgs == {<<0, 0>>, <<1, 2>>}
ScalarArgs == {<<3>>}
CubicArgs == {<<1, 0, 2, 5, 4, -1>>}
QuadraticArgs == {<<2, 3, -1, 1>>}
ArcArgs == {<<2, 3, 30, 1, 0, 5, 4>>}
\* Letters the switch has no case for (T is a path command of SVG itself).
UnsupportedLetters == {"X", "t"}

SVGCommand ==
  [name : {"M", "m", "L", "l"}, args : PairArgs]
    \cup [name : {"H", "h", "V", "v"}, args : ScalarArgs]
    \cup [name : {"C", "c"}, args : CubicArgs]
    \cup [name : {"Q", "q"}, args : QuadraticArgs]
    \cup [name : {"A", "a"}, args : ArcArgs]
    \cup [name : {"Z", "z"}, args : {<<>>}]
    \cup [name : UnsupportedLetters, args : {<<1, 1>>}]

\* Every command list of at most MaxCommands commands.
CommandLists == UNION {[1..n -> SVGCommand] : n \in 0..MaxCommands}

\* The boxes handed to combineBoundingBoxes.
BoundingBox ==
  [type : {"object"},
   x : {number(0), number(5)},
   y : {number(0), number(-5)},
   width : {number(10)},
   height : {number(5), number(10)}]

\* An entry of a call: a box, or an absent one.
Entry == BoundingBox \cup {null, undefined}

EntryLists == UNION {[1..n -> Entry] : n \in 0..MaxBoxes}

\* The argument arrays of a call: the entries themselves (variadic form) or
\* one array holding them (list form).
ArgumentLists == EntryLists \cup {<<array(items)>> : items \in EntryLists}

\* The points splines are fitted to: a square, as in the scenario of four
\* points, and a point off it.  Every coordinate is a multiple of 6.
Point == {<<0, 0>>, <<12, 0>>, <<12, 12>>, <<0, 12>>, <<-6, 18>>}

\* Every point sequence of at most MaxPoints points.
Paths == UNION {[1..n -> Point] : n \in 0..MaxPoints}

\* The tensions: loose, tight, and one beyond [0, 1].
Tensions == {0, 1, 2}

\* The point sequences written as a spline and read back.
RoundTripPaths ==
  UNION {[1..n -> {<<0, 0>>, <<12, 0>>, <<-6, 18>>}] : n \in 0..MaxPoints}

\* The arguments x, y, width, height of buildDStringForRectangle.
Rectangles == {0, 5} \X {0, -5} \X {0, 10} \X {5, 10}

\* The path data added to a builder: two rectangles, neither inside the
\* other.
PathData ==
  {buildDStringForRectangle(0, 0, 10, 5), buildDStringForRectangle(5, -5, 10, 10)}

\* The objects of the caller: two gradients with the same properties, a drop
\* shadow and a blur, none with an id yet.
Objects ==
  [g1 |-> [kind |-> "linear-gradient", data |-> "a", id |-> noId],
   g2 |-> [kind |-> "linear-gradient", data |-> "a", id |-> noId],
   s1 |-> [kind |-> "drop-shadow", data |-> "s", id |-> noId],
   b1 |-> [kind |-> "gaussian-blur", data |-> "b", id |-> noId]]

Strokes == {undefined, ref("g1")}
Fills == {string("red"), ref("g1"), ref("g2")}
\* dropShadow and gaussianBlur of one call
Filters == {<<undefined, undefined>>, <<ref("s1"), ref("b1")>>}

\* The viewBox argument of the constructor
ViewBoxes == {undefined, box(0, 0, 10, 10)}

\* The styles an artist is made with: a plain one, and one whose stroke and
\* fill are one gradient object, with both filters.
ArtistStyles ==
  {<<undefined, string("red"), undefined, undefined>>,
   <<ref("g1"), ref("g1"), ref("s1"), ref("b1")>>}

\* The arguments of the drawing calls of an artist.
ArtistRectangles == {<<0, 0, 10, 5>>, <<5, -5, 10, 10>>}
Centers == {[x |-> 5, y |-> -5]}
Radii == {5, 10}
LinePaths ==
  {<<>>, <<<<0, 0>>, <<12, 0>>>>, <<<<0, 0>>, <<12, 0>>, <<-6, 18>>>>}
CurvePaths ==
  {<<<<0, 0>>>>, <<<<0, 0>>, <<12, 0>>>>,
   <<<<0, 0>>, <<12, 0>>, <<-6, 18>>, <<0, 0>>>>}

\* The arguments of getUniqueId and withUniqueId.
Prefixes == {"fill", "stroke"}
IdentifyingData == {undefined, string("red"), ref("g1"), ref("g2")}

----------------------------------------------------------------------------
(* executeSVGStateMachine(svgCommands) as a state machine *)

VARIABLES
  svgCommands,  \* the argument
  i,            \* the number of commands the for-loop has completed
  geometry,     \* const geometry = []
  brushTip,     \* let brushTip = null
  pc,           \* "idle", "loop", "returned" (return geometry) or "thrown"
  error,        \* the message of the exception thrown, "" if none
  boxes,        \* combineBoundingBoxes: the array of the call's arguments
  combined,     \* combineBoundingBoxes: the value returned
  cpc,          \* combineBoundingBoxes: "idle", "called" or "returned"
  points,       \* spline.js: the argument points
  tension,      \* spline.js: the argument tension
  individual,   \* spline.js: the argument individual of buildSimplePathDString
  rectangle,    \* the arguments of buildDStringForRectangle, <<>> if none
  called,       \* spline.js: the name of the function called, "" before
  result,       \* spline.js: the outcome of the call
  elements,         \* SVGBuilder: this.elements
  defs,             \* SVGBuilder: this.defs
  idMap,            \* SVGBuilder: this.idMap
  uniqueIdCounter,  \* SVGBuilder: this.uniqueIdCounter
  width,            \* SVGBuilder: this.width
  height,           \* SVGBuilder: this.height
  viewBox,          \* SVGBuilder: this.viewBox
  objects,          \* the gradient and filter objects of the caller
  warnings,         \* the number of calls of console.warn
  artist,           \* Artist: the fields of the artist, <<>> if none
  returned,         \* what the last call on the artist or builder returned
  calls             \* getUniqueId: the calls made, each with the id returned

interpreterVars == <<svgCommands, i, geometry, brushTip, pc, error>>
combineVars == <<boxes, combined, cpc>>
splineVars == <<points, tension, individual, rectangle, called, result>>
builderVars ==
  <<elements, defs, idMap, uniqueIdCounter, width, height, viewBox, objects,
    warnings>>
clientVars == <<artist, returned, calls>>
vars == <<interpreterVars, combineVars, splineVars, builderVars, clientVars>>

\* No call of executeSVGStateMachine is under way.
interpreterIdle ==
  /\ svgCommands = <<>>
  /\ i = 0
  /\ geometry = <<>>
  /\ brushTip = Null
  /\ pc = "idle"
  /\ error = ""

\* No call of combineBoundingBoxes is under way.
combineIdle ==
  /\ boxes = <<>>
  /\ combined = undefined
  /\ cpc = "idle"

\* No call of spline.js is under way.
splineIdle ==
  /\ points = <<>>
  /\ tension = 1
  /\ individual = TRUE
  /\ rectangle = <<>>
  /\ called = "idle"
  /\ result = returns(<<>>)

\* No SVGBuilder has been constructed.
builderIdle ==
  /\ elements = <<>>
  /\ defs = <<>>
  /\ idMap = <<>>
  /\ uniqueIdCounter = 0
  /\ width = 0
  /\ height = 0
  /\ viewBox = undefined
  /\ objects = Objects
  /\ warnings = 0

\* No Artist has been constructed and no call has been made.
clientIdle ==
  /\ artist = <<>>
  /\ returned = ""
  /\ calls = <<>>

\* The local state as processCommand's operators take it.
local == [geometry |-> geometry, brushTip |-> brushTip, error |-> error]

\* The command the loop is at.
current == svgCommands[i + 1]

Init ==
  /\ svgCommands \in CommandLists
  /\ i = 0
  /\ geometry = <<>>
  /\ brushTip = Null
  /\ pc = "loop"
  /\ error = ""
  /\ combineIdle
  /\ splineIdle
  /\ builderIdle
  /\ clientIdle

\* The for-loop is at a command whose name is among letters.
atCommand(letters) ==
  /\ pc = "loop"
  /\ i < Len(svgCommands)
  /\ current.name \in letters

\* One iteration of `for (const command of svgCommands) processCommand(command)`:
\* st is what processCommand left; an exception ends the run.
iteration(st) ==
  /\ geometry' = st.geometry
  /\ brushTip' = st.brushTip
  /\ error' = st.error
  /\ pc' = IF st.error = "" THEN "loop" ELSE "thrown"
  /\ i' = IF st.error = "" THEN i + 1 ELSE i
  /\ UNCHANGED <<clientVars, svgCommands, combineVars, splineVars, builderVars>>

MoveTo ==
  /\ atCommand({"M", "m"})
  /\ iteration(processCommand(local, current))

LineTo ==
  /\ atCommand({"L", "l"})
  /\ iteration(processCommand(local, current))

HorizontalLineTo ==
  /\ atCommand({"H", "h"})
  /\ iteration(processCommand(local, current))

VerticalLineTo ==
  /\ atCommand({"V", "v"})
  /\ iteration(processCommand(local, current))

CubicBezier ==
  /\ atCommand({"C", "c"})
  /\ iteration(processCommand(local, current))

QuadraticBezier ==
  /\ atCommand({"Q", "q"})
  /\ iteration(processCommand(local, current))

Arc ==
  /\ atCommand({"A", "a"})
  /\ iteration(processCommand(local, current))

ClosePath ==
  /\ atCommand({"Z", "z"})
  /\ iteration(processCommand(local, current))

Unsupported ==
  /\ atCommand(UnsupportedLetters)
  /\ iteration(processCommand(local, current))

\* return geometry
Return ==
  /\ pc = "loop"
  /\ i = Len(svgCommands)
  /\ pc' = "returned"
  /\ UNCHANGED <<clientVars, svgCommands, i, geometry, brushTip, error,
                 combineVars,
                 splineVars, builderVars>>

Next ==
  \/ MoveTo
  \/ LineTo
  \/ HorizontalLineTo
  \/ VerticalLineTo
  \/ CubicBezier
  \/ QuadraticBezier
  \/ Arc
  \/ ClosePath
  \/ Unsupported
  \/ Return

Spec == Init /\ [][Next]_vars

----------------------------------------------------------------------------
(* A call of combineBoundingBoxes *)

CombineInit ==
  /\ interpreterIdle
  /\ splineIdle
  /\ builderIdle
  /\ clientIdle
  /\ boxes \in ArgumentLists
  /\ combined = undefined
  /\ cpc = "called"

\* return null / return { x, y, width, height }
Combine ==
  /\ cpc = "called"
  /\ combined' = combineBoundingBoxes(boxes)
  /\ cpc' = "returned"
  /\ UNCHANGED <<clientVars, boxes, interpreterVars, splineVars, builderVars>>

CombineNext == Combine

SpecCombine == CombineInit /\ [][CombineNext]_vars

----------------------------------------------------------------------------
(* A call of one of the functions of spline.js *)

SplineInit ==
  /\ interpreterIdle
  /\ combineIdle
  /\ builderIdle
  /\ clientIdle
  /\ points \in Paths
  /\ tension \in Tensions
  /\ individual \in BOOLEAN
  /\ rectangle = <<>>
  /\ called = ""
  /\ result = returns(<<>>)

\* No function of spline.js has been called yet.
notCalled == called = ""

\* The call of the function named name ends with outcome.
ends(name, outcome) ==
  /\ called' = name
  /\ result' = outcome
  /\ UNCHANGED <<clientVars, points, tension, individual, rectangle,
                 interpreterVars,
                 combineVars, builderVars>>

PerformCatmullRom ==
  /\ notCalled
  /\ ends("performCatmullRom", performCatmullRom(points, tension))

PerformCanonicalSpline ==
  /\ notCalled
  /\ ends("performCanonicalSpline", performCanonicalSpline(points, tension))

BuildSimplePathDString ==
  /\ notCalled
  /\ ends("buildSimplePathDString", buildSimplePathDString(points, individual))

BuildSplineDString ==
  /\ notCalled
  /\ ends("buildSplineDString", buildSplineDString(points, tension))

SplineNext ==
  \/ PerformCatmullRom
  \/ PerformCanonicalSpline
  \/ BuildSimplePathDString
  \/ BuildSplineDString

SpecSpline == SplineInit /\ [][SplineNext]_vars

----------------------------------------------------------------------------
(* A path text is built, read into commands, and handed to                 *)
(* executeSVGStateMachine *)

RoundTripInit ==
  /\ interpreterIdle
  /\ combineIdle
  /\ builderIdle
  /\ clientIdle
  /\ \/ /\ points \in RoundTripPaths
        /\ tension \in Tensions
        /\ rectangle = <<>>
     \/ /\ points = <<>>
        /\ tension = 1
        /\ rectangle \in Rectangles
  /\ individual = TRUE
  /\ called = ""
  /\ result = returns(<<>>)

BuildDStringForRectangle ==
  /\ notCalled
  /\ rectangle # <<>>
  /\ ends("buildDStringForRectangle",
          returns(text(buildDStringForRectangle(rectangle[1], rectangle[2],
                                                rectangle[3], rectangle[4]))))

\* The text returned is read into commands and executeSVGStateMachine is
\* called with them.
Parse ==
  /\ pc = "idle"
  /\ called \in {"buildSplineDString", "buildDStringForRectangle"}
  /\ result.thrown = ""
  /\ svgCommands' = parse(result.value)
  /\ pc' = "loop"
  /\ UNCHANGED <<clientVars, i, geometry, brushTip, error, combineVars,
                 splineVars,
                 builderVars>>

RoundTripNext ==
  \/ BuildSplineDString
  \/ BuildDStringForRectangle
  \/ Parse
  \/ MoveTo
  \/ LineTo
  \/ HorizontalLineTo
  \/ VerticalLineTo
  \/ CubicBezier
  \/ QuadraticBezier
  \/ ClosePath
  \/ Return

SpecRoundTrip == RoundTripInit /\ [][RoundTripNext]_vars

----------------------------------------------------------------------------
(* One SVGBuilder and the calls made on it *)

\* new SVGBuilder(width, height, viewBox)
BuilderInit ==
  /\ interpreterIdle
  /\ combineIdle
  /\ splineIdle
  /\ clientIdle
  /\ elements = <<>>
  /\ defs = <<>>
  /\ idMap = <<>>
  /\ uniqueIdCounter = 0
  /\ width = 100
  /\ height = 50
  /\ \E given \in ViewBoxes :
       viewBox = IF given \in {null, undefined}
                   THEN box(0, 0, width, height) ELSE given
  /\ objects = Objects
  /\ warnings = 0

\* this, with the objects of the caller
this ==
  [elements |-> elements, defs |-> defs, idMap |-> idMap,
   uniqueIdCounter |-> uniqueIdCounter, objects |-> objects]

AddPath ==
  /\ Len(elements) < MaxElements
  /\ \E d \in PathData, stroke \in Strokes, fill \in Fills, filters \in Filters :
       \E self \in {addPath(this, d, stroke, fill, filters[1], filters[2])} :
           /\ elements' = self.elements
           /\ defs' = self.defs
           /\ idMap' = self.idMap
           /\ uniqueIdCounter' = self.uniqueIdCounter
           /\ objects' = self.objects
  /\ UNCHANGED <<width, height, viewBox, warnings>>
  /\ UNCHANGED <<clientVars, interpreterVars, combineVars, splineVars>>

AdjustViewboxToFitContent ==
  /\ \E adjusted \in {adjustViewboxToFitContent(elements, viewBox)} :
       /\ adjusted.viewBox # InvalidPathData
       /\ adjusted.warned => warnings < MaxWarnings
       /\ viewBox' = adjusted.viewBox
       /\ warnings' = IF adjusted.warned THEN warnings + 1 ELSE warnings
  /\ UNCHANGED <<elements, defs, idMap, uniqueIdCounter, width, height, objects>>
  /\ UNCHANGED <<clientVars, interpreterVars, combineVars, splineVars>>

BuilderNext ==
  \/ AddPath
  \/ AdjustViewboxToFitContent

SpecBuilder == BuilderInit /\ [][BuilderNext]_vars

----------------------------------------------------------------------------
(* An Artist of an SVGBuilder and the calls made on it *)

\* A builder has been constructed; no artist yet.
ConstructedInit ==
  /\ interpreterIdle
  /\ combineIdle
  /\ splineIdle
  /\ clientIdle
  /\ elements = <<>>
  /\ defs = <<>>
  /\ idMap = <<>>
  /\ uniqueIdCounter = 0
  /\ width = 100
  /\ height = 50
  /\ viewBox = box(0, 0, 100, 50)
  /\ objects = Objects
  /\ warnings = 0

\* SVGBuilder.artist(...)
NewArtist ==
  /\ artist = <<>>
  /\ \E style \in ArtistStyles :
       artist' = Artist(style[1], style[2], style[3], style[4])
  /\ returned' = "artist"
  /\ UNCHANGED <<calls, interpreterVars, combineVars, splineVars, builderVars>>

\* There is an artist, with room for one more text.
drawing == artist # <<>> /\ Len(artist.definitions) < MaxDefinitions

\* A drawing call whose path builder ends with outcome: the text is pushed
\* and this returned, or the error is thrown before the push.
draws(outcome) ==
  /\ IF outcome.thrown = ""
       THEN artist' = push(artist, outcome.value) /\ returned' = "this"
       ELSE artist' = artist /\ returned' = "thrown"
  /\ UNCHANGED <<calls, interpreterVars, combineVars, splineVars, builderVars>>

Rectangle ==
  /\ drawing
  /\ \E r \in ArtistRectangles :
       draws(returns(text(buildDStringForRectangle(r[1], r[2], r[3], r[4]))))

Circle ==
  /\ drawing
  /\ \E center \in Centers, radius \in Radii :
       draws(returns(buildDStringForEllipse(center.x, center.y, radius, radius)))

Ellipse ==
  /\ drawing
  /\ \E center \in Centers, rx \in Radii, ry \in Radii :
       /\ rx # ry
       /\ draws(returns(buildDStringForEllipse(center.x, center.y, rx, ry)))

Line ==
  /\ drawing
  /\ \E A \in Centers, B \in {[x |-> 0, y |-> 0]} :
       draws(returns(buildDStringForLine(A, B)))

LineSequence ==
  /\ drawing
  /\ \E path \in LinePaths, close \in BOOLEAN :
       draws(buildDStringForLineSequence(path, close))

Curve ==
  /\ drawing
  /\ \E path \in CurvePaths :
       draws(buildSplineDString(path, 1))

Commit ==
  /\ artist # <<>>
  /\ Len(elements) < MaxElements
  /\ \E self \in {commit(artist, this)} :
       /\ elements' = self.elements
       /\ defs' = self.defs
       /\ idMap' = self.idMap
       /\ uniqueIdCounter' = self.uniqueIdCounter
       /\ objects' = self.objects
  /\ returned' = "parentSVGBuilder"
  /\ UNCHANGED <<artist, calls, width, height, viewBox, warnings>>
  /\ UNCHANGED <<interpreterVars, combineVars, splineVars>>

ArtistNext ==
  \/ NewArtist
  \/ Rectangle
  \/ Circle
  \/ Ellipse
  \/ Line
  \/ LineSequence
  \/ Curve
  \/ Commit

SpecArtist == ConstructedInit /\ [][ArtistNext]_vars

----------------------------------------------------------------------------
(* The identifiers of one SVGBuilder.  calls records every call of         *)
(* getUniqueId: its prefix, JSON.stringify(identifyingData) as the call    *)
(* saw it (<<>> for no identifying data) and the id returned.              *)

\* The call of getUniqueId(prefix, identifyingData) that returned id.
callOf(prefix, identifyingData, id) ==
  [prefix |-> prefix,
   json |-> IF truthy(identifyingData)
              THEN stringify(objects, identifyingData) ELSE <<>>,
   id |-> id]

GetUniqueId ==
  /\ Len(calls) < MaxCalls
  /\ \E prefix \in Prefixes, identifyingData \in IdentifyingData :
       \E unique \in {getUniqueId(this, prefix, identifyingData)} :
         /\ idMap' = unique.self.idMap
         /\ uniqueIdCounter' = unique.self.uniqueIdCounter
         /\ returned' = unique.id
         /\ calls' = Append(calls, callOf(prefix, identifyingData, unique.id))
  /\ UNCHANGED <<artist, elements, defs, width, height, viewBox, objects,
                 warnings>>
  /\ UNCHANGED <<interpreterVars, combineVars, splineVars>>

WithUniqueId ==
  /\ Len(calls) < MaxCalls
  /\ \E prefix \in Prefixes, item \in IdentifyingData :
       \E self \in {withUniqueId(this, prefix, item)} :
         /\ idMap' = self.idMap
         /\ uniqueIdCounter' = self.uniqueIdCounter
         /\ objects' = self.objects
         /\ returned' = getUniqueId(this, prefix, item).id
         /\ calls' = Append(calls, callOf(prefix, item, returned'))
  /\ UNCHANGED <<artist, elements, defs, width, height, viewBox, warnings>>
  /\ UNCHANGED <<interpreterVars, combineVars, splineVars>>

IdsNext ==
  \/ GetUniqueId
  \/ WithUniqueId

SpecIds == ConstructedInit /\ [][IdsNext]_vars

----------------------------------------------------------------------------
(* The definitions of one SVGBuilder: addPath, setDropShadow and           *)
(* setGaussianBlur *)

SetDropShadow ==
  /\ Len(defs) < MaxDefs
  /\ \E self \in {setDropShadow(this, ref("s1"))} :
       /\ defs' = self.defs
       /\ idMap' = self.idMap
       /\ uniqueIdCounter' = self.uniqueIdCounter
       /\ objects' = self.objects
  /\ UNCHANGED <<elements, width, height, viewBox, warnings>>
  /\ UNCHANGED <<clientVars, interpreterVars, combineVars, splineVars>>

SetGaussianBlur ==
  /\ Len(defs) < MaxDefs
  /\ \E self \in {setGaussianBlur(this, ref("b1"))} :
       /\ defs' = self.defs
       /\ idMap' = self.idMap
       /\ uniqueIdCounter' = self.uniqueIdCounter
       /\ objects' = self.objects
  /\ UNCHANGED <<elements, width, height, viewBox, warnings>>
  /\ UNCHANGED <<clientVars, interpreterVars, combineVars, splineVars>>

DefsNext ==
  \/ AddPath
  \/ SetDropShadow
  \/ SetGaussianBlur

SpecDefs == ConstructedInit /\ [][DefsNext]_vars

----------------------------------------------------------------------------
(* Properties of the path interpreter *)

MoveLetters == {"M", "m"}
DrawingLetters == {"L", "l", "H", "h", "V", "v", "C", "c", "Q", "q", "A", "a"}

\* The for-loop is at a command of these letters and the command completes.
completes(letters) == atCommand(letters) /\ pc' = "loop"

\* A point pair resolved against the cursor as the path language defines it.
resolved(name, pair) ==
  IF toUpperCase(name) = name THEN pair
  ELSE <<brushTip[1] + pair[1], brushTip[2] + pair[2]>>

\* The point a primitive ends at.
endOf(primitive) ==
  IF primitive.kind = "ellipseArc" THEN primitive.absoluteEnd ELSE primitive.p2

\* The index of the first move-to command of the input, 0 if there is none.
firstMoveTo ==
  IF \E k \in 1..Len(svgCommands) : svgCommands[k].name \in MoveLetters
    THEN CHOOSE k \in 1..Len(svgCommands) :
           /\ svgCommands[k].name \in MoveLetters
           /\ \A j \in 1..(k - 1) : svgCommands[j].name \notin MoveLetters
    ELSE 0

\* The point the first move-to command of the input set the cursor to.
pathStart == executePrefix(svgCommands, firstMoveTo).brushTip

\* Some drawing command of the input comes before every move-to of it.
drawsBeforeAnyMoveTo ==
  \E k \in 1..Len(svgCommands) :
    /\ svgCommands[k].name \in DrawingLetters
    /\ \A j \in 1..(k - 1) : svgCommands[j].name \notin MoveLetters

\* C1: a drawing command processed before any M/m has set the cursor makes
\* the run fail (with the cursor-not-set error), so no run over an input
\* whose first drawing command precedes every move-to returns a geometry list.
C1_CursorNotSet ==
  drawsBeforeAnyMoveTo => pc # "returned"

\* C2: a command whose letter is outside {M,L,H,V,C,Q,A,Z} (either case) ends
\* the run with the unsupported-command error when the loop reaches it: it is
\* not skipped, nothing is emitted for it, and no run over an input holding
\* such a command returns a geometry list.
C2_UnsupportedCommand ==
  [][/\ (/\ pc = "loop"
         /\ i < Len(svgCommands)
         /\ toUpperCase(current.name) \notin supportedSVGPathDLetters)
          => (/\ pc' = "thrown"
              /\ error' = UnsupportedSVGCommand
              /\ i' = i
              /\ geometry' = geometry)
     /\ pc' = "returned"
          => \A k \in 1..Len(svgCommands) :
               toUpperCase(svgCommands[k].name) \in supportedSVGPathDLetters]_vars

C2_Witness ==
  /\ pc = "thrown"
  /\ error = UnsupportedSVGCommand
  /\ i = 1
  /\ svgCommands[1] = [name |-> "M", args |-> <<0, 0>>]
  /\ svgCommands[2] = [name |-> "X", args |-> <<1, 1>>]

\* C3: Z/z appends exactly one Line from the cursor to the path-start (the
\* point the first move-to of the input set the cursor to) when a primitive
\* has been emitted, and otherwise appends nothing and leaves the cursor.
C3_ClosePath ==
  [][(atCommand({"Z", "z"}) /\ firstMoveTo \in 1..i)
       => /\ pc' = "loop"
          /\ brushTip' = brushTip
          /\ IF Len(geometry) > 0
               THEN geometry' = Append(geometry, [kind |-> "line",
                                                  p1 |-> brushTip,
                                                  p2 |-> pathStart])
               ELSE geometry' = geometry]_vars

\* C4: with the cursor at (cx,cy), H x / h dx emit the Line cursor-(x,cy) /
\* cursor-(cx+dx,cy) and V y / v dy emit the Line cursor-(cx,y) /
\* cursor-(cx,cy+dy): only the named axis changes.
C4_HorizontalVertical ==
  [][(atCommand({"H", "h", "V", "v"}) /\ brushTip # Null)
       => LET n == current.name
              a == current.args[1]
              target == CASE n = "H" -> <<a, brushTip[2]>>
                          [] n = "h" -> <<brushTip[1] + a, brushTip[2]>>
                          [] n = "V" -> <<brushTip[1], a>>
                          [] n = "v" -> <<brushTip[1], brushTip[2] + a>>
          IN  /\ pc' = "loop"
              /\ geometry' = Append(geometry, [kind |-> "line",
                                               p1 |-> brushTip,
                                               p2 |-> target])]_vars

\* C5: each A/a emits exactly one EllipseArc whose absoluteStart is the cursor
\* before the command, whose absoluteEnd is the target point and whose radii
\* and flags are the command's arguments.
C5_Arc ==
  [][(atCommand({"A", "a"}) /\ brushTip # Null)
       => LET a == current.args
          IN  /\ pc' = "loop"
              /\ geometry' =
                   Append(geometry,
                          [kind |-> "ellipseArc",
                           absoluteStart |-> brushTip,
                           rX |-> a[1],
                           rY |-> a[2],
                           angle |-> a[3],
                           largeArcFlag |-> a[4],
                           sweepFlag |-> a[5],
                           absoluteEnd |-> resolved(current.name, <<a[6], a[7]>>)])]_vars

\* C6: after every move or drawing command the cursor is the command's target
\* point: the point of a move-to, the end point of the primitive emitted by a
\* drawing command (so the next primitive starts where this one ended).
C6_CursorFollows ==
  [][/\ (completes(MoveLetters) /\ brushTip # Null)
          => brushTip' = resolved(current.name, current.args)
     /\ (completes(DrawingLetters) /\ brushTip # Null)
          => /\ Len(geometry') = Len(geometry) + 1
             /\ brushTip' = endOf(geometry'[Len(geometry')])]_vars

\* C7: with the cursor set, L/l, C/c and Q/q emit exactly one Line,
\* CubicBezier and QuadraticBezier, starting at the cursor before the command,
\* with every argument pair taken as it is (uppercase) or added to that same
\* cursor (lowercase).
C7_LineCubicQuadratic ==
  [][(atCommand({"L", "l", "C", "c", "Q", "q"}) /\ brushTip # Null)
       => LET n == current.name
              a == current.args
              primitive ==
                CASE n \in {"L", "l"} ->
                       [kind |-> "line",
                        p1 |-> brushTip,
                        p2 |-> resolved(n, <<a[1], a[2]>>)]
                  [] n \in {"C", "c"} ->
                       [kind |-> "cubicBezier",
                        p1 |-> brushTip,
                        cp1 |-> resolved(n, <<a[1], a[2]>>),
                        cp2 |-> resolved(n, <<a[3], a[4]>>),
                        p2 |-> resolved(n, <<a[5], a[6]>>)]
                  [] n \in {"Q", "q"} ->
                       [kind |-> "quadraticBezier",
                        p1 |-> brushTip,
                        cp |-> resolved(n, <<a[1], a[2]>>),
                        p2 |-> resolved(n, <<a[3], a[4]>>)]
          IN  /\ pc' = "loop"
              /\ geometry' = Append(geometry, primitive)]_vars

\* A relative cubic has been emitted from a cursor other than the origin.
C7_Witness ==
  /\ pc = "loop"
  /\ i = 2
  /\ svgCommands[1] = [name |-> "M", args |-> <<1, 2>>]
  /\ svgCommands[2].name = "c"
  /\ Len(geometry) = 1
  /\ geometry[1].kind = "cubicBezier"

\* C8: M sets the cursor to its argument, m to cursor+argument, and no move
\* command, wherever it stands in the input, changes the geometry list.
C8_MoveTo ==
  [][atCommand(MoveLetters)
       => /\ geometry' = geometry
          /\ current.name = "M"
               => (pc' = "loop" /\ brushTip' = current.args)
          /\ (current.name = "m" /\ brushTip # Null)
               => (pc' = "loop" /\ brushTip' = sum(brushTip, current.args))]_vars

\* A relative move-to has been taken after a primitive was emitted.
C8_Witness ==
  /\ pc = "loop"
  /\ i = 3
  /\ svgCommands[2].name = "L"
  /\ svgCommands[3] = [name |-> "m", args |-> <<1, 2>>]
  /\ Len(geometry) = 1
  /\ brushTip = sum(geometry[1].p2, <<1, 2>>)

\* The kind of primitive a drawing letter stands for.
kindOf(name) ==
  CASE toUpperCase(name) \in {"L", "H", "V", "Z"} -> "line"
    [] toUpperCase(name) = "C" -> "cubicBezier"
    [] toUpperCase(name) = "Q" -> "quadraticBezier"
    [] toUpperCase(name) = "A" -> "ellipseArc"

\* The number of the first n commands of the input whose letter is in letters.
countOf(letters, n) ==
  Cardinality({k \in 1..n : svgCommands[k].name \in letters})

\* C9: the geometry list is append-only and in source order: a step never
\* removes or reorders what was emitted, every L/H/V/C/Q/A command that is
\* processed appends exactly one primitive (of its kind) at the end, a Z
\* appends at most one line, a move appends nothing; so the k-th primitive
\* comes from the k-th emitting command.
C9_AppendOnly ==
  [][/\ Len(geometry') >= Len(geometry)
     /\ SubSeq(geometry', 1, Len(geometry)) = geometry
     /\ completes(DrawingLetters)
          => /\ Len(geometry') = Len(geometry) + 1
             /\ geometry'[Len(geometry')].kind = kindOf(current.name)
     /\ completes({"Z", "z"})
          => \/ geometry' = geometry
             \/ /\ Len(geometry') = Len(geometry) + 1
                /\ geometry'[Len(geometry')].kind = "line"
     /\ ~ (completes(DrawingLetters) \/ completes({"Z", "z"}))
          => geometry' = geometry
     /\ countOf(DrawingLetters, i') <= Len(geometry')
     /\ Len(geometry') <= countOf(DrawingLetters \cup {"Z", "z"}, i')]_vars

\* A list of three primitives of three kinds has been returned.
C9_Witness ==
  /\ pc = "returned"
  /\ Len(geometry) = 3
  /\ geometry[1].kind = "quadraticBezier"
  /\ geometry[2].kind = "ellipseArc"
  /\ geometry[3].kind = "line"

----------------------------------------------------------------------------
(* Properties of combineBoundingBoxes *)

\* The entries of the call: the items of the array in list form, the
\* arguments themselves in variadic form.
entries ==
  IF Len(boxes) = 1 /\ boxes[1].type = "array" THEN boxes[1].items ELSE boxes

\* Every entry of the call is absent (vacuously so for an empty input).
allAbsent ==
  \A k \in 1..Len(entries) : entries[k] \in {null, undefined}

\* C10: combineBoundingBoxes returns null whenever its input is empty or every
\* entry is absent, in the variadic and in the list form.
C10_NoContentIsNull ==
  (cpc = "returned" /\ allAbsent) => combined = null

\* The positions of the entries that are boxes.
present == {k \in 1..Len(entries) : entries[k].type = "object"}

\* The least and the greatest of a non-empty set of integers.
least(S) == CHOOSE v \in S : \A w \in S : v <= w
greatest(S) == CHOOSE v \in S : \A w \in S : v >= w

\* With at least one box present, absent entries are skipped and the result
\* is x = min x, y = min y, width = max (x+width) - x,
\* height = max (y+height) - y over the present boxes; it contains every
\* present box and is the box itself when only one is present.
minimalRectangle ==
  (cpc = "returned" /\ present # {})
    => LET minX == least({entries[k].x.n : k \in present})
           minY == least({entries[k].y.n : k \in present})
           maxX == greatest({entries[k].x.n + entries[k].width.n : k \in present})
           maxY == greatest({entries[k].y.n + entries[k].height.n : k \in present})
       IN  /\ combined = box(minX, minY, maxX - minX, maxY - minY)
           /\ \A k \in present :
                /\ combined.x.n <= entries[k].x.n
                /\ combined.y.n <= entries[k].y.n
                /\ entries[k].x.n + entries[k].width.n
                     <= combined.x.n + combined.width.n
                /\ entries[k].y.n + entries[k].height.n
                     <= combined.y.n + combined.height.n
           /\ Cardinality(present) = 1
                => \A k \in present : combined = entries[k]

\* combine([{0,0,10,5}, null, {5,-5,10,10}]) has returned.
exampleReturned ==
  /\ cpc = "returned"
  /\ boxes = <<array(<<box(0, 0, 10, 5), null, box(5, -5, 10, 10)>>)>>

\* C11 as stated: the minimal rectangle of the present boxes, and
\* combine([{0,0,10,5}, null, {5,-5,10,10}]) = {x:0, y:-5, width:15, height:15}.
C11_AsStated ==
  /\ minimalRectangle
  /\ exampleReturned => combined = box(0, -5, 15, 15)

\* C11 as amended: the minimal rectangle of the present boxes, and
\* combine([{0,0,10,5}, null, {5,-5,10,10}]) = {x:0, y:-5, width:15, height:10}
\* (both boxes end at y = 5, so the height is 5 - (-5) = 10).
C11_MinimalRectangle ==
  /\ minimalRectangle
  /\ exampleReturned => combined = box(0, -5, 15, 10)

C11_Witness ==
  /\ exampleReturned
  /\ combined = box(0, -5, 15, 10)

\* combine(p, q), the variadic call on two entries.
combine2(p, q) == combineBoundingBoxes(<<p, q>>)

\* C12: combine is associative and commutative with null as identity: for
\* a, b, c each a box or null, combine(combine(a,b),c) = combine(a,combine(b,c)),
\* combine(a,b) = combine(b,a) and combine(a,null) = a.
C12_AssociativeCommutative ==
  (/\ Len(boxes) = 3
   /\ \A k \in 1..3 : boxes[k] \in BoundingBox \cup {null})
    => LET a == boxes[1]
           b == boxes[2]
           c == boxes[3]
       IN  /\ combine2(combine2(a, b), c) = combine2(a, combine2(b, c))
           /\ combine2(a, b) = combine2(b, a)
           /\ combine2(a, null) = a


----------------------------------------------------------------------------
(* Properties of spline.js *)

fits(name) == called = name /\ result.thrown = ""
fitted == result.value
n == Len(points)

\* C14: on an empty point sequence performCatmullRom and
\* performCanonicalSpline throw "At least 1 point required", whatever the
\* tension, and return nothing.
C14_EmptyInput ==
  (/\ called \in {"performCatmullRom", "performCanonicalSpline"}
   /\ points = <<>>)
    => result = throws(AtLeast1PointRequired)

C14_Witness ==
  /\ called = "performCanonicalSpline"
  /\ points = <<>>
  /\ tension = 2
  /\ result.thrown = AtLeast1PointRequired

\* C15: performCatmullRom on 1 to 3 points and performCanonicalSpline on 1 to
\* 4 points return the list of one segment that is the input itself,
\* whatever the tension.
C15_ShortInput ==
  /\ (called = "performCatmullRom" /\ n \in 1..3)
       => result = returns(<<points>>)
  /\ (called = "performCanonicalSpline" /\ n \in 1..4)
       => result = returns(<<points>>)

C15_Witness ==
  /\ called = "performCanonicalSpline"
  /\ points = <<<<0, 0>>, <<12, 0>>, <<12, 12>>, <<0, 12>>>>
  /\ tension = 0
  /\ fitted = <<points>>

\* C16: performCatmullRom on n >= 4 points returns n - 1 segments of four
\* points, segment i (from 0) running from points[i] to points[i+1]; so
\* consecutive segments share their joining point and every input point is
\* an endpoint of a segment.
C16_CatmullRom ==
  (called = "performCatmullRom" /\ n >= 4)
    => /\ result.thrown = ""
       /\ Len(fitted) = n - 1
       /\ \A k \in 0..(n - 2) :
            /\ Len(at(fitted, k)) = 4
            /\ at(fitted, k)[1] = at(points, k)
            /\ at(fitted, k)[4] = at(points, k + 1)
       /\ \A k \in 0..(n - 3) : at(fitted, k)[4] = at(fitted, k + 1)[1]
       /\ \A j \in 0..(n - 1) :
            \E k \in 0..(n - 2) :
              at(points, j) \in {at(fitted, k)[1], at(fitted, k)[4]}

C16_Witness ==
  /\ fits("performCatmullRom")
  /\ points = <<<<0, 0>>, <<12, 0>>, <<12, 12>>, <<0, 12>>>>
  /\ tension = 1
  /\ Len(fitted) = 3
  /\ <<fitted[1][1], fitted[1][4]>> = <<<<0, 0>>, <<12, 0>>>>
  /\ <<fitted[2][1], fitted[2][4]>> = <<<<12, 0>>, <<12, 12>>>>
  /\ <<fitted[3][1], fitted[3][4]>> = <<<<12, 12>>, <<0, 12>>>>

\* The points of the input that are neither its first nor its last.
inner == {at(points, j) : j \in 1..(n - 2)}
\* The endpoints of the segments returned.
endpoints == UNION {{fitted[k][1], fitted[k][Len(fitted[k])]} : k \in 1..Len(fitted)}

accepted(segment) == buildSimplePathDString(segment, FALSE).thrown = ""

\* C18, as it is claimed: every segment returned for a non-empty input has
\* 2, 3 or 4 points and is accepted by buildSimplePathDString.
C18_AsStated ==
  (/\ called \in {"performCatmullRom", "performCanonicalSpline"}
   /\ n >= 1)
    => /\ result.thrown = ""
       /\ \A k \in 1..Len(fitted) :
            /\ Len(fitted[k]) \in {2, 3, 4}
            /\ accepted(fitted[k])

\* C18: every segment returned for an input of at least 2 points has 2, 3 or
\* 4 points and is accepted by buildSimplePathDString; the input of one
\* point is returned as one segment of one point, which
\* buildSimplePathDString rejects.
C18_SegmentLengths ==
  /\ (/\ called \in {"performCatmullRom", "performCanonicalSpline"}
      /\ n >= 2)
       => /\ result.thrown = ""
          /\ \A k \in 1..Len(fitted) :
               /\ Len(fitted[k]) \in {2, 3, 4}
               /\ accepted(fitted[k])
  /\ (/\ called \in {"performCatmullRom", "performCanonicalSpline"}
      /\ n = 1)
       => /\ result = returns(<<points>>)
          /\ buildSimplePathDString(fitted[1], FALSE) = throws(PointsMustBe234)

C18_Witness ==
  /\ fits("performCanonicalSpline")
  /\ n = 5
  /\ Len(fitted) = 2
  /\ \A k \in 1..2 : Len(fitted[k]) = 4 /\ accepted(fitted[k])

\* C19: buildSimplePathDString throws, and returns nothing, exactly when the
\* number of points is not 2, 3 or 4: "# Points must be 2, 3, or 4" for 0
\* and 1 point, "... points do not form a simple curve" for 5 and more.
C19_UnsupportedShape ==
  called = "buildSimplePathDString"
    => /\ n \in {2, 3, 4} => result.thrown = ""
       /\ n \in {0, 1} => result = throws(PointsMustBe234)
       /\ n > 4 => result = throws(NotASimpleCurve)

C19_Witness ==
  /\ called = "buildSimplePathDString"
  /\ n = 1
  /\ result = throws(PointsMustBe234)

\* The coordinates of the points path[from..Len(path)], space-separated.
RECURSIVE trailing(_, _)
trailing(path, from) ==
  IF from > Len(path) THEN <<>>
  ELSE <<" ">> \o toString(path[from][1]) \o <<" ">> \o toString(path[from][2])
         \o trailing(path, from + 1)

\* The token of a path of 2, 3 or 4 points: the letter of its length and
\* the coordinates of its points from the second on.
token(path) ==
  <<CASE Len(path) = 2 -> "L" [] Len(path) = 3 -> "Q" [] Len(path) = 4 -> "C">>
    \o trailing(path, 2)

CommandLetters ==
  {"M", "m", "L", "l", "H", "h", "V", "v", "C", "c", "Q", "q", "A", "a", "Z", "z"}

\* The positions of the command letters of a string.
lettersOf(s) == {k \in 1..Len(s) : s[k] \in CommandLetters}

\* A string without the spaces at its end.
RECURSIVE trimEnd(_)
trimEnd(s) ==
  IF s # <<>> /\ s[Len(s)] = " " THEN trimEnd(SubSeq(s, 1, Len(s) - 1)) ELSE s

\* The clauses of s from the command letter at position k on.
RECURSIVE clausesFrom(_, _)
clausesFrom(s, k) ==
  IF k > Len(s)
    THEN <<>>
    ELSE LET next == firstIn(s, k + 1, CommandLetters)
         IN  <<trimEnd(SubSeq(s, k, next - 1))>> \o clausesFrom(s, next)

\* The clauses of a string that starts with a command letter: each runs from
\* a command letter up to the next, without the spaces at its end.
clauses(s) == clausesFrom(s, 1)

\* C21: for 2 points or more buildSplineDString returns a string with one
\* move-to command, which is its first clause and goes to points[0],
\* followed by the tokens of the segments of performCatmullRom, one a
\* segment and in their order.
C21_OneMoveTo ==
  (called = "buildSplineDString" /\ n >= 2)
    => /\ result.thrown = ""
       /\ fitted[1] = "M"
       /\ \A parts \in {clauses(fitted)} :
            \A segments \in {performCatmullRom(points, tension).value} :
              /\ Len(parts) = 1 + Len(segments)
              /\ parts[1] = <<"M", " ">> \o toString(points[1][1])
                              \o <<" ">> \o toString(points[1][2])
              /\ \A j \in 1..Len(segments) : parts[j + 1] = token(segments[j])

C21_Witness ==
  /\ fits("buildSplineDString")
  /\ points = <<<<-6, 18>>, <<12, 0>>, <<12, 12>>, <<0, 12>>>>
  /\ tension = 1
  /\ Len(clauses(fitted)) = 4
  /\ clauses(fitted)[1] = <<"M", " ", "-", "6", " ", "1", "8">>
  /\ \A j \in 2..4 : clauses(fitted)[j][1] = "C"

\* C22: in a string returned by buildSplineDString every command letter but
\* the first character comes after exactly one space.
C22_SingleSpaces ==
  fits("buildSplineDString")
    => \A k \in lettersOf(fitted) \ {1} :
         /\ fitted[k - 1] = " "
         /\ k > 2 => fitted[k - 2] # " "

\* The difference a - b of two points, and the point a + (c * d) / 6.
difference(a, b) == <<a[1] - b[1], a[2] - b[2]>>
offset(a, c, d) == <<a[1] + (c * d[1]) \div 6, a[2] + (c * d[2]) \div 6>>

\* C24: segment k (from 0) of performCatmullRom on n >= 4 points is
\* [p1, p1 + tension*(p2-p0)/6, p2 - tension*(p3-p1)/6, p2], p1 = points[k],
\* p2 = points[k+1], p0 and p3 the neighbours, clamped at the ends; the
\* tension is used as given, so with tension 0 the control points are p1 and
\* p2.  The inputs are those whose differences are multiples of 6.
C24_ControlPoints ==
  (called = "performCatmullRom" /\ n >= 4)
    => /\ result.thrown = ""
       /\ Len(fitted) = n - 1
       /\ \A k \in 0..(n - 2) :
            LET p0 == points[IF k = 0 THEN 1 ELSE k]
                p1 == points[k + 1]
                p2 == points[k + 2]
                p3 == points[IF k = n - 2 THEN n ELSE k + 3]
            IN  /\ fitted[k + 1] =
                     <<p1,
                       offset(p1, tension, difference(p2, p0)),
                       offset(p2, 0 - tension, difference(p3, p1)),
                       p2>>
                /\ tension = 0 => fitted[k + 1] = <<p1, p1, p2, p2>>

C24_Witness ==
  /\ fits("performCatmullRom")
  /\ points = <<<<0, 0>>, <<12, 0>>, <<12, 12>>, <<0, 12>>>>
  /\ tension = 2
  /\ fitted[1] = <<<<0, 0>>, <<4, 0>>, <<8, -4>>, <<12, 0>>>>

----------------------------------------------------------------------------
(* Properties of a path text read back *)

\* C23: the text buildSplineDString returns for 2 points or more is
\* interpreted without an error, and the geometry returned starts at the
\* first point, ends at the last, each primitive starting where the one
\* before it ended; for 4 points or more it is n - 1 cubic curves, curve k
\* (from 0) running from points[k] to points[k+1].
C23_RoundTrip ==
  (called = "buildSplineDString" /\ n >= 2 /\ pc # "idle")
    => /\ pc # "thrown"
       /\ pc = "returned"
            => /\ geometry # <<>>
               /\ geometry[1].p1 = points[1]
               /\ geometry[Len(geometry)].p2 = points[n]
               /\ \A k \in 1..(Len(geometry) - 1) :
                    geometry[k + 1].p1 = geometry[k].p2
               /\ n >= 4
                    => /\ Len(geometry) = n - 1
                       /\ \A k \in 1..(n - 1) :
                            /\ geometry[k].kind = "cubicBezier"
                            /\ geometry[k].p1 = points[k]
                            /\ geometry[k].p2 = points[k + 1]

C23_Witness ==
  /\ called = "buildSplineDString"
  /\ pc = "returned"
  /\ points = <<<<0, 0>>, <<12, 0>>, <<-6, 18>>, <<0, 0>>>>
  /\ Len(geometry) = 3
  /\ geometry[3].kind = "cubicBezier"
  /\ geometry[3].p1 = <<-6, 18>>
  /\ geometry[3].p2 = <<0, 0>>

\* A line from a to b.
line(a, b) == [kind |-> "line", p1 |-> a, p2 |-> b]

\* C25: the path of buildDStringForRectangle(x, y, w, h) is interpreted as
\* the four lines (x,y)-(x+w,y), (x+w,y)-(x+w,y+h), (x+w,y+h)-(x,y+h),
\* (x,y+h)-(x,y).
C25_Rectangle ==
  (called = "buildDStringForRectangle" /\ pc # "idle")
    => /\ pc # "thrown"
       /\ pc = "returned"
            => LET x == rectangle[1]
                   y == rectangle[2]
                   w == rectangle[3]
                   h == rectangle[4]
               IN  geometry = <<line(<<x, y>>, <<x + w, y>>),
                                line(<<x + w, y>>, <<x + w, y + h>>),
                                line(<<x + w, y + h>>, <<x, y + h>>),
                                line(<<x, y + h>>, <<x, y>>)>>

----------------------------------------------------------------------------
(* Properties of SVGBuilder *)

\* The least rectangle around the rectangles drawn by the elements.
contentBox ==
  LET drawn == {elements[k].d : k \in 1..Len(elements)}
      minX == least({d.x : d \in drawn})
      minY == least({d.y : d \in drawn})
      maxX == greatest({d.x + d.width : d \in drawn})
      maxY == greatest({d.y + d.height : d \in drawn})
  IN  box(minX, minY, maxX - minX, maxY - minY)

\* C13: adjustViewboxToFitContent on a builder without elements, which is
\* when the content bounding box is null, leaves viewBox as it is and warns
\* once; on a builder with elements it sets viewBox to the least rectangle
\* around all of them and does not warn; elements and defs stay as they are.
C13_AutoFit ==
  [][AdjustViewboxToFitContent =>
       /\ elements' = elements
       /\ defs' = defs
       /\ (getContentBoundingBox(elements) = null) <=> (elements = <<>>)
       /\ IF elements = <<>>
            THEN viewBox' = viewBox /\ warnings' = warnings + 1
            ELSE viewBox' = contentBox /\ warnings' = warnings]_vars

C13_Witness ==
  /\ warnings = 1
  /\ Len(elements) = 2
  /\ elements[1].d # elements[2].d
  /\ defs # <<>>
  /\ viewBox = box(0, -5, 15, 10)

----------------------------------------------------------------------------
(* Properties of Artist *)

\* Where text k of texts starts in their join, counted from 1.
RECURSIVE startOf(_, _)
startOf(texts, k) ==
  IF k = 1 THEN 1 ELSE startOf(texts, k - 1) + Len(texts[k - 1]) + 1

\* d is the texts in their order with one space between neighbours.
joined(d, texts) ==
  IF texts = <<>>
    THEN d = <<>>
    ELSE /\ Len(d) = startOf(texts, Len(texts)) + Len(texts[Len(texts)]) - 1
         /\ \A k \in 1..Len(texts) :
              LET from == startOf(texts, k)
              IN  /\ SubSeq(d, from, from + Len(texts[k]) - 1) = texts[k]
                  /\ k > 1 => d[from - 1] = " "

\* C27: rectangle, circle, ellipse, line, lineSequence and curve leave the
\* parent builder's elements, defs and uniqueIdCounter as they are; commit
\* appends exactly one path element to the parent's elements, whose d is the
\* artist's texts in call order joined by single spaces, and returns the
\* parent builder.
C27_Artist ==
  [][/\ (Rectangle \/ Circle \/ Ellipse \/ Line \/ LineSequence \/ Curve)
          => UNCHANGED <<elements, defs, uniqueIdCounter>>
     /\ Commit
          => /\ Len(elements') = Len(elements) + 1
             /\ SubSeq(elements', 1, Len(elements)) = elements
             /\ joined(elements'[Len(elements')].d, artist.definitions)
             /\ returned' = "parentSVGBuilder"]_vars

C27_Witness ==
  /\ artist # <<>>
  /\ Len(artist.definitions) = 2
  /\ artist.definitions[1] # artist.definitions[2]
  /\ returned = "parentSVGBuilder"
  /\ Len(elements) = 1
  /\ elements[1].d
       = artist.definitions[1] \o <<" ">> \o artist.definitions[2]

----------------------------------------------------------------------------
(* Properties of the identifiers *)

\* Call b has identifying data and an earlier call had the same prefix and
\* the same JSON of its data.
repeats(b) ==
  /\ calls[b].json # <<>>
  /\ \E a \in 1..(b - 1) :
       calls[a].prefix = calls[b].prefix /\ calls[a].json = calls[b].json

\* What C28 says of the calls made so far.
idsAgree ==
  /\ \A a, b \in 1..Len(calls) :
       (/\ calls[a].json # <<>>
        /\ calls[a].prefix = calls[b].prefix
        /\ calls[a].json = calls[b].json) => calls[a].id = calls[b].id
  /\ \A b \in 1..Len(calls) :
       ~repeats(b) => \A a \in 1..(b - 1) : calls[a].id # calls[b].id
  /\ uniqueIdCounter >= Cardinality(DOMAIN idMap)

\* C28: after any sequence of getUniqueId calls on one SVGBuilder, two calls
\* with the same prefix and JSON-equal identifying data have returned the
\* same id, a call with a new prefix and data or without identifying data
\* has returned an id no earlier call returned, and uniqueIdCounter never
\* decreases and is at least the number of entries of idMap.
C28_UniqueIds ==
  [][idsAgree' /\ uniqueIdCounter' >= uniqueIdCounter]_vars

C28_Witness ==
  /\ Len(calls) = 3
  /\ repeats(3)
  /\ calls[3].json = calls[1].json
  /\ calls[3].id = calls[1].id
  /\ ~repeats(2)
  /\ calls[2].id # calls[1].id
  /\ uniqueIdCounter = 2

----------------------------------------------------------------------------
(* Properties of the definitions *)

\* C29: after any sequence of addPath, setDropShadow and setGaussianBlur
\* calls on one SVGBuilder, no two definitions in defs carry the same id.
C29_DistinctIds ==
  \A a, b \in 1..Len(defs) : a # b => defs[a].id # defs[b].id

====
